---- MODULE Spec2Model ----
(***************************************************************************)
(* A model of the keyboard/clipboard layer and of the event-binding layer  *)
(* of blockly/core/blockly.js, and of the controls_if block.               *)
(*                                                                         *)
(* Part I   Blockly.onKeyDown_, Blockly.copy_, Blockly.duplicate_ acting   *)
(*          on the clipboard, the selection, the workspaces' blocks and    *)
(*          the event group (specification Spec).                          *)
(* Part II  Blockly.bindEventWithChecks_, Blockly.bindEvent_ and           *)
(*          Blockly.unbindEvent_ acting on the listeners of DOM nodes      *)
(*          (specification SpecBind).                                      *)
(* Part III Blockly.defineBlocksWithJsonArray acting on Blockly.Blocks      *)
(*          (specification SpecDefine).                                    *)
(* Part IV  The mutation functions of the controls_if block: mutationToDom,*)
(*          domToMutation, decompose, compose and saveConnections, acting  *)
(*          on the block's inputs and on the mutator's stack of clause     *)
(*          blocks (specifications SpecIf and SpecIfRoundTrip).            *)
(*                                                                         *)
(* Collaborators that live outside blockly.js (WorkspaceSvg.paste,         *)
(* Block.dispose, Xml.blockToDom, Events.setGroup, Touch) are modelled     *)
(* by the effect the callers rely on; every call is also recorded, in      *)
(* order, in the variable trace.                                           *)
(***************************************************************************)
EXTENDS Integers, Sequences, FiniteSets, TLC

\* ------------------------------------------------------------------ bounds
\* The most blocks all workspaces hold together.
MaxBlocks == 4
\* The most calls of an entry point (onKeyDown_, duplicate_) in a behaviour.
MaxCalls == 2

\* ------------------------------------------------------- program constants
DRAG_NONE == 0
DRAG_STICKY == 1
DRAG_FREE == 2

KEY_BACKSPACE == 8
KEY_ESC == 27
KEY_DELETE == 46
KEY_A == 65
KEY_C == 67
KEY_V == 86
KEY_X == 88
KEY_Y == 89
KEY_Z == 90

\* ------------------------------------------------------------- the world
\* Workspace 1 is a left-to-right workspace, workspace 2 a right-to-left one.
Workspaces == {1, 2}
WorkspaceRTL(ws) == ws = 2

\* null for a block, a workspace or a connection; ids start at 1.
NoBlock == 0
NoWorkspace == 0
NoConnection == 0
\* null for an optional element or text: the empty sequence; <<v>> is v.
Null == <<>>
Some(v) == <<v>>

DragModes == {DRAG_NONE, DRAG_STICKY, DRAG_FREE}
KeyCodes == {KEY_ESC, KEY_BACKSPACE, KEY_DELETE, KEY_A, KEY_C, KEY_V,
             KEY_X, KEY_Y, KEY_Z}
\* A key-down event: the fields Blockly.onKeyDown_ reads; targetInput is
\* the value of Blockly.utils.isTargetInput(e).
KeyEvents == [keyCode : KeyCodes, altKey : BOOLEAN, ctrlKey : BOOLEAN,
              metaKey : BOOLEAN, shiftKey : BOOLEAN, targetInput : BOOLEAN]
NoEvent == [keyCode |-> 0, altKey |-> FALSE, ctrlKey |-> FALSE,
            metaKey |-> FALSE, shiftKey |-> FALSE, targetInput |-> FALSE]

VARIABLES
  mainWorkspace,           \* Blockly.mainWorkspace
  readOnly,                \* workspace -> options.readOnly
  selected,                \* Blockly.selected (a block id or NoBlock)
  highlightedConnection_,  \* Blockly.highlightedConnection_
  clipboardXml_,           \* Blockly.clipboardXml_ (Null or Some(element))
  clipboardSource_,        \* Blockly.clipboardSource_
  dragMode_,               \* Blockly.dragMode_
  blocks,                  \* block id -> block, the blocks of all workspaces
  group,                   \* TRUE while Blockly.Events has a group set
  clipCache,               \* the text held by JSFuncs' clip cache
  op,                      \* the entry point that ran last
  pre,                     \* the state it was called in
  ev,                      \* the event it was given
  arg,                     \* the block it was given
  trace,                   \* the calls it made, in order
  prevented,               \* whether it called e.preventDefault()
  threw,                   \* whether it ended with an exception
  calls,                   \* the number of calls made so far
  listeners,               \* (part II) node -> the node's listeners, in order
  bindings,                \* (part II) binding -> its closure and bind data
  funcCalls,               \* (part II) the calls of func of the last dispatch
  preventedBy,             \* (part II) bindings that prevented its default
  bop,                     \* (part II) the operation that ran last
  bev,                     \* (part II) the event that was dispatched last
  bpre,                    \* (part II) the listeners and bindings before it
  Blocks,                  \* (part III) Blockly.Blocks: type name -> definition
  dlog,                    \* (part III) the warnings and definitions of the last call
  dop,                     \* (part III) the operation that ran last
  djson,                   \* (part III) the array it was given
  dpre,                    \* (part III) Blockly.Blocks before it
  ifBlock,                 \* (part IV) the controls_if block: counts and inputs
  loaded,                  \* (part IV) whether the block's XML was loaded
  mutator,                 \* (part IV) the mutator: open, clause blocks, stack
  savedClauses,            \* (part IV) the clause blocks of the last saveConnections
  clean,                   \* (part IV) only the stack changed since that call
  icalls,                  \* (part IV) the calls made so far
  iop,                     \* (part IV) the operation that ran last
  isrc,                    \* (part IV) the block whose XML was loaded
  ipre                     \* (part IV) the state before the operation

keyVars == <<mainWorkspace, readOnly, selected, highlightedConnection_,
             clipboardXml_, clipboardSource_, dragMode_, blocks, group,
             clipCache, op, pre, ev, arg, trace, prevented, threw, calls>>
bindVars == <<listeners, bindings, funcCalls, preventedBy, bop, bev, bpre>>
defVars == <<Blocks, dlog, dop, djson, dpre>>
ifVars == <<ifBlock, loaded, mutator, savedClauses, clean, icalls, iop, isrc,
            ipre>>
vars == <<keyVars, bindVars, defVars, ifVars>>
\* The variables the actions of one part leave alone.
nonKeyVars == <<bindVars, defVars, ifVars>>
nonBindVars == <<keyVars, defVars, ifVars>>
nonDefVars == <<keyVars, bindVars, ifVars>>
nonIfVars == <<keyVars, bindVars, defVars>>

\* ---------------------------------------------------------------- blocks
\* A block: the workspace it is in, its type, the results of isDeletable()
\* and isMovable(), its position on the surface, and the block connected to
\* its next connection.
IsDeletable(bs, b) == bs[b].deletable
IsMovable(bs, b) == bs[b].movable
BlockRTL(bs, b) == WorkspaceRTL(bs[b].workspace)

RECURSIVE Chain(_, _)
\* The block b followed by the blocks below it in its stack.
Chain(bs, b) ==
  IF b = NoBlock THEN <<>> ELSE <<b>> \o Chain(bs, bs[b].next)

Range(f) == {f[i] : i \in DOMAIN f}

\* The block whose next connection holds b, or NoBlock.
PreviousBlock(bs, b) ==
  IF \E p \in DOMAIN bs : bs[p].next = b
  THEN CHOOSE p \in DOMAIN bs : bs[p].next = b
  ELSE NoBlock

\* The id given to the next new block: the smallest one not in use.
FreshId(used) ==
  CHOOSE n \in 1..(Cardinality(used) + 1) :
    n \notin used /\ \A m \in 1..(n - 1) : m \in used

RECURSIVE FreshIds(_, _)
FreshIds(used, n) ==
  IF n = 0 THEN <<>>
  ELSE LET f == FreshId(used) IN <<f>> \o FreshIds(used \cup {f}, n - 1)

\* ------------------------------------------------------------------- XML
\* An element: one entry per block of the serialized stack, and the x and
\* y attributes when they are set.
BlockToDom(bs, b) ==
  LET c == Chain(bs, b)
  IN [blocks |-> [i \in 1..Len(c) |->
                    [type |-> bs[c[i]].type,
                     deletable |-> bs[c[i]].deletable,
                     movable |-> bs[c[i]].movable]],
      hasXY |-> FALSE, x |-> 0, y |-> 0]

DeleteNext(xml) == [xml EXCEPT !.blocks = SubSeq(@, 1, 1)]

SetXY(xml, x, y) == [xml EXCEPT !.hasXY = TRUE, !.x = x, !.y = y]

\* Serialized text of an element, and the element parsed from a text.
DomToText(dom) == <<"text", dom>>
TextToDom(text) == text[2]

\* The blocks an element describes, built in workspace ws with the head
\* at (x, y) and each following block one row below.
DomToBlocks(bs, ws, xml, x, y) ==
  LET n == Len(xml.blocks)
      ids == FreshIds(DOMAIN bs, n)
      new == [id \in Range(ids) |->
                LET k == CHOOSE i \in 1..n : ids[i] = id
                IN [workspace |-> ws,
                    type |-> xml.blocks[k].type,
                    deletable |-> xml.blocks[k].deletable,
                    movable |-> xml.blocks[k].movable,
                    x |-> x, y |-> y + (k - 1),
                    next |-> IF k < n THEN ids[k + 1] ELSE NoBlock]]
  IN [b \in DOMAIN bs \cup Range(ids) |->
        IF b \in DOMAIN bs THEN bs[b] ELSE new[b]]

\* ---------------------------------------------- the state a call works on
Log(s, call) == [s EXCEPT !.trace = Append(@, call)]

\* Blockly.Events.setGroup(state)
SetGroup(s, state) ==
  IF s.threw THEN s
  ELSE Log([s EXCEPT !.group = state], <<"setGroup", state>>)

\* Blockly.hideChaff()
HideChaff(s) == IF s.threw THEN s ELSE Log(s, <<"hideChaff">>)

\* e.preventDefault()
PreventDefault(s) ==
  IF s.threw THEN s
  ELSE Log([s EXCEPT !.prevented = TRUE], <<"preventDefault">>)

\* Blockly.mainWorkspace.undo(redo)
Undo(s, redo) ==
  IF s.threw THEN s ELSE Log(s, <<"undo", s.mainWorkspace, redo>>)

\* workspace.paste(xmlBlock): the blocks of the element are created in the
\* workspace at the element's position (x mirrored back on an RTL
\* workspace) and the new head block is selected; or the call throws.
Paste(s, ws, xml, fails) ==
  IF s.threw THEN s
  ELSE
    LET s1 == Log(s, <<"paste", ws, xml, s.group>>)
        x == IF WorkspaceRTL(ws) THEN -xml.x ELSE xml.x
        bs == DomToBlocks(s.blocks, ws, xml, x, xml.y)
    IN IF fails THEN [s1 EXCEPT !.threw = TRUE]
       ELSE [s1 EXCEPT !.blocks = bs,
                       !.selected = FreshId(DOMAIN s.blocks)]

\* Blockly.Xml.domToBlock(dom, workspace): the blocks are created at the
\* element's position, (0, 0) without one; or the call throws.
DomToBlock(s, ws, xml, fails) ==
  IF s.threw THEN s
  ELSE
    LET s1 == Log(s, <<"domToBlock", ws, xml, s.group>>)
    IN IF fails THEN [s1 EXCEPT !.threw = TRUE]
       ELSE [s1 EXCEPT !.blocks = DomToBlocks(s.blocks, ws, xml, xml.x, xml.y)]

\* block.dispose(heal, animate): the block leaves its workspace; with heal
\* the blocks below it stay and join the block above, without it they go
\* too. A disposed block is no longer selected; or the call throws.
Dispose(s, b, heal, fails) ==
  IF s.threw THEN s
  ELSE
    LET s1 == Log(s, <<"dispose", b, heal, s.group>>)
        bs == s.blocks
        gone == IF heal THEN {b} ELSE Range(Chain(bs, b))
        prev == PreviousBlock(bs, b)
        kept == [c \in DOMAIN bs \ gone |->
                   IF c = prev
                   THEN [bs[c] EXCEPT !.next = IF heal THEN bs[b].next
                                                ELSE NoBlock]
                   ELSE bs[c]]
    IN IF fails THEN [s1 EXCEPT !.threw = TRUE]
       ELSE [s1 EXCEPT !.blocks = kept,
                       !.selected = IF @ \in gone THEN NoBlock ELSE @]

\* Blockly.highlightedConnection_.unhighlight()
Unhighlight(s) == IF s.threw THEN s ELSE Log(s, <<"unhighlight">>)

\* The end of a try block whose catch clause is empty.
Catch(s) == [s EXCEPT !.threw = FALSE]

\* A variant of copy_ that forgets to mirror x on an RTL block.
copy_NoMirror(s, block) ==
  IF s.threw THEN s
  ELSE
    LET xmlBlock == BlockToDom(s.blocks, block)
        xml1 == IF s.dragMode_ # DRAG_FREE THEN DeleteNext(xmlBlock)
                ELSE xmlBlock
        xml2 == SetXY(xml1, s.blocks[block].x, s.blocks[block].y)
    IN Log([s EXCEPT !.clipboardXml_ = Some(xml2),
                     !.clipboardSource_ = s.blocks[block].workspace],
           <<"copy_", block>>)

\* ------------------------------------------------------- Blockly.copy_
\* Copy a block onto the local clipboard.
copy_(s, block) ==
  IF s.threw THEN s
  ELSE
    LET xmlBlock == BlockToDom(s.blocks, block)
        xml1 == IF s.dragMode_ # DRAG_FREE THEN DeleteNext(xmlBlock)
                ELSE xmlBlock
        \* Encode start position in XML.
        xyx == s.blocks[block].x
        xyy == s.blocks[block].y
        xml2 == SetXY(xml1,
                      IF BlockRTL(s.blocks, block) THEN -xyx ELSE xyx, xyy)
    IN Log([s EXCEPT !.clipboardXml_ = Some(xml2),
                     !.clipboardSource_ = s.blocks[block].workspace],
           <<"copy_", block>>)

\* A variant of duplicate_ that does not restore the clipboard.
duplicate_NoRestore(s, block, fails) ==
  Paste(copy_(s, block), s.blocks[block].workspace,
        copy_(s, block).clipboardXml_[1], fails)

\* --------------------------------------------------- Blockly.duplicate_
\* Duplicate this block and its children.
duplicate_(s, block, fails) ==
  LET \* Save the clipboard.
      clipboardXml == s.clipboardXml_
      clipboardSource == s.clipboardSource_
      \* Create a duplicate via a copy/paste operation.
      s1 == copy_(s, block)
      s2 == Paste(s1, s.blocks[block].workspace, s1.clipboardXml_[1], fails)
  IN \* Restore the clipboard.
     IF s2.threw THEN s2
     ELSE [s2 EXCEPT !.clipboardXml_ = clipboardXml,
                     !.clipboardSource_ = clipboardSource]

\* --------------------------------------------------- Blockly.onKeyDown_
\* A block is selected and it is deletable and movable.
CanCopy(s) ==
  /\ s.selected # NoBlock
  /\ IsDeletable(s.blocks, s.selected)
  /\ IsMovable(s.blocks, s.selected)

\* A variant of PasteKey that pastes into the main workspace.
PasteKeyIntoMain(s, fails) ==
  IF s.clipboardXml_ # Null
  THEN SetGroup(Paste(SetGroup(s, TRUE), s.mainWorkspace,
                      s.clipboardXml_[1], fails), FALSE)
  ELSE s

\* 'v' for paste.
PasteKey(s, fails) ==
  IF s.clipboardXml_ # Null
  THEN SetGroup(Paste(SetGroup(s, TRUE), s.clipboardSource_,
                      s.clipboardXml_[1], fails), FALSE)
  ELSE s

\* 'z' for undo 'Z' is for redo; 'y' for redo (undo(1), 1 being truthy).
UndoKeys(s, e) ==
  IF e.keyCode = KEY_Z THEN Undo(HideChaff(s), e.shiftKey)
  ELSE IF e.keyCode = KEY_Y THEN Undo(HideChaff(s), TRUE)
  ELSE s

\* A variant of ModifierKeys that cuts a block that is deletable, movable
\* or not.
ModifierKeysCutUnmovable(s, e, fails) ==
  LET can == s.selected # NoBlock /\ IsDeletable(s.blocks, s.selected)
      s1 == IF CanCopy(s) /\ e.keyCode = KEY_C
            THEN copy_(HideChaff(s), s.selected)
            ELSE IF can /\ e.keyCode = KEY_X
            THEN copy_(s, s.selected)
            ELSE s
      s2 == IF e.keyCode = KEY_V THEN PasteKey(s1, fails)
            ELSE UndoKeys(s1, e)
  IN [st |-> s2, deleteBlock |-> can /\ e.keyCode = KEY_X]

\* The branch taken with alt, ctrl or meta held and shift not held: the
\* state it leaves and the value of deleteBlock.
ModifierKeys(s, e, fails) ==
  LET s1 == IF CanCopy(s) /\ e.keyCode = KEY_C
            THEN copy_(HideChaff(s), s.selected)   \* 'c' for copy.
            ELSE IF CanCopy(s) /\ e.keyCode = KEY_X
            THEN copy_(s, s.selected)              \* 'x' for cut.
            ELSE s
      s2 == IF e.keyCode = KEY_V THEN PasteKey(s1, fails)
            ELSE UndoKeys(s1, e)
  IN [st |-> s2, deleteBlock |-> CanCopy(s) /\ e.keyCode = KEY_X]

\* The branch taken with shift and ctrl held: copy to and paste from the
\* clip cache, each inside a try block with an empty catch clause.
ShiftCtrlKeys(s, e, fails) ==
  LET s1 == IF CanCopy(s) /\ e.keyCode = KEY_C
            THEN IF fails THEN s
                 ELSE Log([s EXCEPT !.clipCache =
                             Some(DomToText(BlockToDom(s.blocks, s.selected)))],
                          <<"saveToClipCache">>)
            ELSE s
      s2 == IF e.keyCode = KEY_V
            THEN IF s1.clipCache = Null THEN s1
                 ELSE Catch(DomToBlock(s1, s1.mainWorkspace,
                                       TextToDom(s1.clipCache[1]), fails))
            ELSE s1
  IN [st |-> s2, deleteBlock |-> FALSE]

\* A variant of DeleteKeys that deletes only a block that is movable too.
DeleteKeysMovableOnly(s) ==
  [st |-> PreventDefault(s), deleteBlock |-> CanCopy(s)]

\* Delete or backspace: the default is prevented first.
DeleteKeys(s) ==
  [st |-> PreventDefault(s),
   deleteBlock |-> s.selected # NoBlock /\ IsDeletable(s.blocks, s.selected)]

\* A variant of DeleteCommon that always heals the stack.
DeleteCommonAlwaysHeal(s, fails) ==
  LET s1 == HideChaff(SetGroup(s, TRUE))
      s2 == Dispose(s1, s.selected, TRUE, fails)
      s3 == IF s2.threw \/ s2.highlightedConnection_ = NoConnection THEN s2
            ELSE [Unhighlight(s2) EXCEPT
                    !.highlightedConnection_ = NoConnection]
  IN SetGroup(s3, FALSE)

\* Common code for delete and cut.
DeleteCommon(s, fails) ==
  LET s1 == HideChaff(SetGroup(s, TRUE))
      heal == s.dragMode_ # DRAG_FREE
      s2 == Dispose(s1, s.selected, heal, fails)
      s3 == IF s2.threw \/ s2.highlightedConnection_ = NoConnection THEN s2
            ELSE [Unhighlight(s2) EXCEPT
                    !.highlightedConnection_ = NoConnection]
  IN SetGroup(s3, FALSE)

\* The if/else chain on the key: the state it leaves and deleteBlock.
KeyBranch(s, e, fails) ==
  IF e.keyCode = KEY_ESC
  THEN [st |-> HideChaff(s), deleteBlock |-> FALSE]
  ELSE IF e.keyCode = KEY_BACKSPACE \/ e.keyCode = KEY_DELETE
  THEN DeleteKeys(s)
  ELSE IF (e.altKey \/ e.ctrlKey \/ e.metaKey) /\ ~e.shiftKey
  THEN ModifierKeys(s, e, fails)
  ELSE IF e.shiftKey /\ e.ctrlKey
  THEN ShiftCtrlKeys(s, e, fails)
  ELSE [st |-> s, deleteBlock |-> FALSE]

\* A variant of NoKeyActions that forgets the focused input.
NoKeyActionsReadOnlyOnly(s, e) == s.readOnly[s.mainWorkspace]

\* No key actions on readonly workspaces, nor when focused on an HTML text
\* input widget.
NoKeyActions(s, e) == s.readOnly[s.mainWorkspace] \/ e.targetInput

\* Handle a key-down on SVG drawing surface.
onKeyDown_(s, e, fails) ==
  IF NoKeyActions(s, e) THEN s
  ELSE
    LET r == KeyBranch(s, e, fails)
    IN IF r.deleteBlock /\ ~r.st.threw THEN DeleteCommon(r.st, fails)
       ELSE r.st

\* ------------------------------------------------------------- Part I
\* The state the entry points work on, before any call is made.
Cur ==
  [mainWorkspace |-> mainWorkspace, readOnly |-> readOnly,
   selected |-> selected,
   highlightedConnection_ |-> highlightedConnection_,
   clipboardXml_ |-> clipboardXml_, clipboardSource_ |-> clipboardSource_,
   dragMode_ |-> dragMode_, blocks |-> blocks, group |-> group,
   clipCache |-> clipCache, trace |-> <<>>, prevented |-> FALSE,
   threw |-> FALSE]

\* The record of the state of a call while no call is on record.
NoState ==
  [mainWorkspace |-> NoWorkspace, readOnly |-> <<>>, selected |-> NoBlock,
   highlightedConnection_ |-> NoConnection, clipboardXml_ |-> Null,
   clipboardSource_ |-> NoWorkspace, dragMode_ |-> DRAG_NONE,
   blocks |-> <<>>, group |-> FALSE, clipCache |-> Null, trace |-> <<>>,
   prevented |-> FALSE, threw |-> FALSE]

\* The state an entry point leaves becomes the program's state.
Install(r) ==
  /\ mainWorkspace' = r.mainWorkspace
  /\ readOnly' = r.readOnly
  /\ selected' = r.selected
  /\ highlightedConnection_' = r.highlightedConnection_
  /\ clipboardXml_' = r.clipboardXml_
  /\ clipboardSource_' = r.clipboardSource_
  /\ dragMode_' = r.dragMode_
  /\ blocks' = r.blocks
  /\ group' = r.group
  /\ clipCache' = r.clipCache
  /\ trace' = r.trace
  /\ prevented' = r.prevented
  /\ threw' = r.threw

\* The blocks at the start: in workspace 1 a stack of a block and a block
\* that may be deleted but not moved, and in workspace 2 one block, which
\* may be deleted and moved unless its workspace is read-only.
InitialBlocks(writable2) ==
  (1 :> [workspace |-> 1, type |-> "a", deletable |-> TRUE,
         movable |-> TRUE, x |-> 1, y |-> 1, next |-> 2])
  @@ (2 :> [workspace |-> 1, type |-> "b", deletable |-> TRUE,
            movable |-> FALSE, x |-> 1, y |-> 2, next |-> NoBlock])
  @@ (3 :> [workspace |-> 2, type |-> "c", deletable |-> writable2,
            movable |-> writable2, x |-> 2, y |-> 1, next |-> NoBlock])

InitKey ==
  /\ mainWorkspace = 1
  /\ \E ro2 \in BOOLEAN :
       /\ readOnly = [ws \in Workspaces |-> ws = 2 /\ ro2]
       /\ blocks = InitialBlocks(~ro2)
  /\ selected = NoBlock
  /\ highlightedConnection_ = NoConnection
  /\ clipboardXml_ = Null
  /\ clipboardSource_ = NoWorkspace
  /\ dragMode_ = DRAG_NONE
  /\ group = FALSE
  /\ clipCache = Null
  /\ op = "idle" /\ pre = NoState /\ ev = NoEvent /\ arg = NoBlock
  /\ trace = <<>> /\ prevented = FALSE /\ threw = FALSE
  /\ calls = 0

\* Between two calls the program is idle: the surroundings act then, and
\* the record of the last call is empty.
Idle == op = "idle"
history == <<op, pre, ev, arg, trace, prevented, threw, calls>>

\* The entry point has returned (or thrown) and the event loop goes on.
Return ==
  /\ op # "idle"
  /\ op' = "idle" /\ pre' = NoState /\ ev' = NoEvent /\ arg' = NoBlock
  /\ trace' = <<>> /\ prevented' = FALSE /\ threw' = FALSE
  /\ UNCHANGED <<mainWorkspace, readOnly, selected, highlightedConnection_,
                 clipboardXml_, clipboardSource_, dragMode_, blocks, group,
                 clipCache, calls, nonKeyVars>>

\* A block is selected, or the selection is cleared.
Select ==
  /\ Idle
  /\ \E b \in DOMAIN blocks \cup {NoBlock} : selected' = b
  /\ UNCHANGED <<mainWorkspace, readOnly, highlightedConnection_,
                 clipboardXml_, clipboardSource_, dragMode_, blocks, group,
                 clipCache, nonKeyVars, history>>

\* A drag starts, leaves the sticky radius or ends; a connection is
\* highlighted during a free drag only.
SetDragMode ==
  /\ Idle
  /\ \E m \in DragModes :
       /\ dragMode_' = m
       /\ highlightedConnection_' =
            IF m = DRAG_FREE THEN highlightedConnection_ ELSE NoConnection
  /\ UNCHANGED <<mainWorkspace, readOnly, selected,
                 clipboardXml_, clipboardSource_, blocks, group, clipCache,
                 nonKeyVars, history>>

\* A free drag highlights a connection.
Highlight ==
  /\ Idle
  /\ dragMode_ = DRAG_FREE
  /\ highlightedConnection_' = 1
  /\ UNCHANGED <<mainWorkspace, readOnly, selected, clipboardXml_,
                 clipboardSource_, dragMode_, blocks, group, clipCache,
                 nonKeyVars, history>>

\* WorkspaceSvg.markFocused makes a workspace the main workspace.
MarkFocused ==
  /\ Idle
  /\ \E ws \in Workspaces : mainWorkspace' = ws
  /\ UNCHANGED <<readOnly, selected, highlightedConnection_, clipboardXml_,
                 clipboardSource_, dragMode_, blocks, group, clipCache,
                 nonKeyVars, history>>

\* A key goes down on the drawing surface.
KeyDown ==
  /\ Idle /\ calls < MaxCalls /\ calls' = calls + 1
  /\ \E e \in KeyEvents, fails \in BOOLEAN :
       \E r \in {onKeyDown_(Cur, e, fails)} :
         /\ Cardinality(DOMAIN r.blocks) <= MaxBlocks
         /\ Install(r)
         /\ op' = "onKeyDown_" /\ ev' = e /\ arg' = NoBlock
  /\ pre' = Cur
  /\ UNCHANGED nonKeyVars

\* A block is duplicated (from its context menu).
Duplicate ==
  /\ Idle /\ calls < MaxCalls /\ calls' = calls + 1
  /\ \E b \in DOMAIN blocks, fails \in BOOLEAN :
       \E r \in {duplicate_(Cur, b, fails)} :
         /\ Cardinality(DOMAIN r.blocks) <= MaxBlocks
         /\ Install(r)
         /\ op' = "duplicate_" /\ ev' = NoEvent /\ arg' = b
  /\ pre' = Cur
  /\ UNCHANGED nonKeyVars

\* ------------------------------------------------------------- Part II
\* The DOM nodes listeners are bound to.
Nodes == {1, 2}
\* Blockly.Touch.TOUCH_MAP: the touch events equivalent to a mouse event.
TOUCH_MAP ==
  [name \in {"mousedown", "mousemove", "mouseup"} |->
     IF name = "mousedown" THEN <<"touchstart">>
     ELSE IF name = "mousemove" THEN <<"touchmove">>
     ELSE <<"touchend", "touchcancel">>]
\* The event names listeners are bound to, and the events dispatched.
BindNames == {"mouseup", "click"}
MouseNames == {"mouseup", "click"}
TouchNames == {"touchend", "touchcancel"}
\* The most bindings made, and the most touch points of a touch event.
MaxBindings == 2
MaxTouches == 2

\* An event: the node it is dispatched to, its name and, for each of its
\* touch points (a mouse event has one), what Touch.shouldHandleEvent says
\* of the event split off for that point.
TouchLists(n) == UNION {[1..k -> BOOLEAN] : k \in 1..n}
Events ==
  [node : Nodes, name : MouseNames, touches : TouchLists(1)]
  \cup [node : Nodes, name : TouchNames, touches : TouchLists(MaxTouches)]
NoDispatch == [node |-> 0, name |-> "", touches |-> <<>>]

\* node.addEventListener(name, fn, false): a listener already there is not
\* added again.
AddEventListener(ls, node, name, fn) ==
  [ls EXCEPT ![node] =
     IF \E i \in DOMAIN @ : @[i] = [name |-> name, fn |-> fn] THEN @
     ELSE Append(@, [name |-> name, fn |-> fn])]

\* node.removeEventListener(name, fn, false)
RemoveEventListener(ls, node, name, fn) ==
  [ls EXCEPT ![node] =
     SelectSeq(@, LAMBDA l : ~(l.name = name /\ l.fn = fn))]

RECURSIVE AddTouchListeners(_, _, _, _, _)
\* The loop over Blockly.Touch.TOUCH_MAP[name] of both bind functions: each
\* touch event gets the listener touchWrapFunc and an entry of bindData.
AddTouchListeners(r, node, name, touchWrapFunc, i) ==
  IF i > Len(TOUCH_MAP[name]) THEN r
  ELSE LET eventName == TOUCH_MAP[name][i]
       IN AddTouchListeners(
            [listeners |-> AddEventListener(r.listeners, node, eventName,
                                            touchWrapFunc),
             bindData |-> Append(r.bindData,
                                 <<node, eventName, touchWrapFunc>>)],
            node, name, touchWrapFunc, i + 1)

\* The listeners and the bind data both bind functions leave for binding b.
Bound(ls, b, node, name) ==
  LET wrapFunc == [binding |-> b, wrap |-> "wrapFunc"]
      touchWrapFunc == [binding |-> b, wrap |-> "touchWrapFunc"]
      r == [listeners |-> AddEventListener(ls, node, name, wrapFunc),
            bindData |-> << <<node, name, wrapFunc>> >>]
  IN \* Add equivalent touch event.
     IF name \in DOMAIN TOUCH_MAP
     THEN AddTouchListeners(r, node, name, touchWrapFunc, 1)
     ELSE r

\* Blockly.bindEventWithChecks_(node, name, thisObject, func,
\* opt_noCaptureIdentifier): the state it leaves; the bind data it returns
\* is kept with the binding.
bindEventWithChecks_(s, node, name, opt_noCaptureIdentifier) ==
  LET b == Len(s.bindings) + 1
      r == Bound(s.listeners, b, node, name)
  IN [s EXCEPT
        !.listeners = r.listeners,
        !.bindings = Append(@, [kind |-> "checks", node |-> node,
                                name |-> name,
                                noCapture |-> opt_noCaptureIdentifier,
                                handled |-> FALSE,
                                bindData |-> r.bindData])]

\* Blockly.bindEvent_(node, name, thisObject, func)
bindEvent_(s, node, name) ==
  LET b == Len(s.bindings) + 1
      r == Bound(s.listeners, b, node, name)
  IN [s EXCEPT
        !.listeners = r.listeners,
        !.bindings = Append(@, [kind |-> "plain", node |-> node,
                                name |-> name, noCapture |-> FALSE,
                                handled |-> FALSE,
                                bindData |-> r.bindData])]

RECURSIVE unbindEvent_AnyWrapper(_, _)
\* A variant of unbindEvent_ that removes every listener of the node for
\* the event name, whatever its wrapper.
unbindEvent_AnyWrapper(ls, bindData) ==
  IF Len(bindData) = 0 THEN [listeners |-> ls, bindData |-> bindData]
  ELSE LET bindDatum == bindData[Len(bindData)]
       IN unbindEvent_AnyWrapper(
            [ls EXCEPT ![bindDatum[1]] =
               SelectSeq(@, LAMBDA l : l.name # bindDatum[2])],
            SubSeq(bindData, 1, Len(bindData) - 1))

RECURSIVE unbindEvent_(_, _)
\* Blockly.unbindEvent_(bindData): the listeners it leaves and the bind
\* data, which it empties.
unbindEvent_(ls, bindData) ==
  IF Len(bindData) = 0 THEN [listeners |-> ls, bindData |-> bindData]
  ELSE LET bindDatum == bindData[Len(bindData)]
           node == bindDatum[1]
           name == bindDatum[2]
           func == bindDatum[3]
       IN unbindEvent_(RemoveEventListener(ls, node, name, func),
                       SubSeq(bindData, 1, Len(bindData) - 1))

\* Blockly.Touch.splitEventByTouches(e): one event per touch point.
SplitEventByTouches(e) ==
  [i \in 1..Len(e.touches) |-> [point |-> i, ok |-> e.touches[i]]]

\* Blockly.Touch.shouldHandleEvent(event)
ShouldHandleEvent(event) == event.ok

RECURSIVE WrapLoopBreak(_, _, _, _)
\* A variant of WrapLoop that leaves the loop at the first touch point
\* that is not to be handled.
WrapLoopBreak(s, b, events, i) ==
  IF i > Len(events) THEN s
  ELSE LET event == events[i]
           captureIdentifier == ~s.bindings[b].noCapture
       IN IF captureIdentifier /\ ~ShouldHandleEvent(event)
          THEN s
          ELSE WrapLoopBreak([s EXCEPT
                                !.funcCalls = Append(@, <<b, event.point>>),
                                !.bindings[b].handled = TRUE],
                             b, events, i + 1)

RECURSIVE WrapLoop(_, _, _, _)
\* The loop of wrapFunc over the split events, from the i-th on.
WrapLoop(s, b, events, i) ==
  IF i > Len(events) THEN s
  ELSE LET event == events[i]
           captureIdentifier == ~s.bindings[b].noCapture
       IN IF captureIdentifier /\ ~ShouldHandleEvent(event)
          THEN WrapLoop(s, b, events, i + 1)
          ELSE WrapLoop([s EXCEPT
                           !.funcCalls = Append(@, <<b, event.point>>),
                           !.bindings[b].handled = TRUE],
                        b, events, i + 1)

\* wrapFunc of bindEventWithChecks_
wrapFunc(s, b, e) == WrapLoop(s, b, SplitEventByTouches(e), 1)

\* touchWrapFunc of bindEventWithChecks_
touchWrapFunc(s, b, e) ==
  LET s1 == wrapFunc(s, b, e)
  IN \* Stop the browser from scrolling/zooming the page.
     IF s1.bindings[b].handled
     THEN [s1 EXCEPT !.preventedBy = @ \cup {b}]
     ELSE s1

\* wrapFunc of bindEvent_: func gets the event as it is (point 0).
plainWrapFunc(s, b, e) == [s EXCEPT !.funcCalls = Append(@, <<b, 0>>)]

\* touchWrapFunc of bindEvent_
plainTouchWrapFunc(s, b, e) ==
  [plainWrapFunc(s, b, e) EXCEPT !.preventedBy = @ \cup {b}]

\* The call of one listener.
CallListener(s, l, e) ==
  LET b == l.fn.binding
  IN IF s.bindings[b].kind = "checks"
     THEN IF l.fn.wrap = "wrapFunc" THEN wrapFunc(s, b, e)
          ELSE touchWrapFunc(s, b, e)
     ELSE IF l.fn.wrap = "wrapFunc" THEN plainWrapFunc(s, b, e)
          ELSE plainTouchWrapFunc(s, b, e)

RECURSIVE DispatchFrom(_, _, _, _)
\* The listeners ls of the event's node, from the i-th on, are called in
\* the order they were added.
DispatchFrom(s, ls, e, i) ==
  IF i > Len(ls) THEN s
  ELSE DispatchFrom(
         IF ls[i].name = e.name THEN CallListener(s, ls[i], e) ELSE s,
         ls, e, i + 1)

CurBind ==
  [listeners |-> listeners, bindings |-> bindings, funcCalls |-> <<>>,
   preventedBy |-> {}]

InstallBind(r) ==
  /\ listeners' = r.listeners
  /\ bindings' = r.bindings
  /\ funcCalls' = r.funcCalls
  /\ preventedBy' = r.preventedBy

IdleBind == bop.kind = "idle"
NoBop == [kind |-> "idle", binding |-> 0]
NoBpre == [listeners |-> <<>>, bindings |-> <<>>, funcCalls |-> <<>>,
           preventedBy |-> {}]

InitBind ==
  /\ listeners = [n \in Nodes |-> <<>>]
  /\ bindings = <<>>
  /\ funcCalls = <<>>
  /\ preventedBy = {}
  /\ bop = NoBop
  /\ bev = NoDispatch
  /\ bpre = NoBpre

\* A listener is bound with Blockly.bindEventWithChecks_.
BindWithChecks ==
  /\ IdleBind /\ Len(bindings) < MaxBindings
  /\ \E node \in Nodes, name \in BindNames, noCapture \in BOOLEAN :
       InstallBind(bindEventWithChecks_(CurBind, node, name, noCapture))
  /\ bop' = [kind |-> "bind", binding |-> Len(bindings) + 1]
  /\ bev' = NoDispatch /\ bpre' = CurBind
  /\ UNCHANGED nonBindVars

\* A listener is bound with Blockly.bindEvent_.
BindPlain ==
  /\ IdleBind /\ Len(bindings) < MaxBindings
  /\ \E node \in Nodes, name \in BindNames :
       InstallBind(bindEvent_(CurBind, node, name))
  /\ bop' = [kind |-> "bind", binding |-> Len(bindings) + 1]
  /\ bev' = NoDispatch /\ bpre' = CurBind
  /\ UNCHANGED nonBindVars

\* The bind data of a binding is passed to Blockly.unbindEvent_.
Unbind ==
  /\ IdleBind
  /\ \E b \in DOMAIN bindings :
       \E r \in {unbindEvent_(listeners, bindings[b].bindData)} :
         /\ listeners' = r.listeners
         /\ bindings' = [bindings EXCEPT ![b].bindData = r.bindData]
         /\ bop' = [kind |-> "unbind", binding |-> b]
  /\ funcCalls' = <<>> /\ preventedBy' = {}
  /\ bev' = NoDispatch /\ bpre' = CurBind
  /\ UNCHANGED nonBindVars

\* The browser dispatches an event to a node.
Dispatch ==
  /\ IdleBind
  /\ \E e \in Events :
       /\ \E r \in {DispatchFrom(CurBind, listeners[e.node], e, 1)} :
            InstallBind(r)
       /\ bev' = e
  /\ bop' = [kind |-> "dispatch", binding |-> 0]
  /\ bpre' = CurBind
  /\ UNCHANGED nonBindVars

\* The operation has returned and the event loop goes on.
ReturnBind ==
  /\ ~IdleBind
  /\ bop' = NoBop /\ bev' = NoDispatch /\ bpre' = NoBpre
  /\ funcCalls' = <<>> /\ preventedBy' = {}
  /\ UNCHANGED <<listeners, bindings, nonBindVars>>

\* =====================================================================
\* Part III: Blockly.defineBlocksWithJsonArray
\* =====================================================================
\* The type names of Blockly.Blocks the model follows.
TypeNames == {"a", "b"}

\* The values of elem.type: undefined (no type attribute), null, or a
\* string, which may be empty.
TypeValues ==
  {[kind |-> "undefined", val |-> ""], [kind |-> "null", val |-> ""]}
    \cup {[kind |-> "string", val |-> v] : v \in TypeNames \cup {""}}

\* The JSON definitions: a type and the rest of the definition.
JsonBodies == {1, 2}
JsonDefs == [type : TypeValues, body : JsonBodies]

\* The longest array given to defineBlocksWithJsonArray.
MaxArray == 3
JsonArrays == UNION {[1..n -> JsonDefs] : n \in 0..MaxArray}

NoDefinitions == [t \in TypeNames |-> Null]

\* The function jsonInitFactory_ returns calls this.jsonInit(jsonDef) with
\* the jsonDef the factory was called with.
jsonInitFactory_(jsonDef) == [jsonInit |-> jsonDef]

\* A variant of DefineElem whose init functions all share the variable
\* elem of the loop, which holds the last element when they are called.
DefineElemSharedElem(st, jsonArray, i) ==
  LET elem == jsonArray[i]
      typename == elem.type
  IN IF typename.kind \in {"undefined", "null"} \/ typename.val = ""
     THEN [st EXCEPT !.dlog = Append(@, <<"warn", i, "missing">>)]
     ELSE [Blocks |-> [st.Blocks EXCEPT ![typename.val] =
                         Some([init |-> jsonInitFactory_(
                                          jsonArray[Len(jsonArray)])])],
           dlog |-> Append(st.dlog, <<"define", i, typename.val>>)]

\* The body of the loop for element i: an element without a type is
\* skipped with a warning, any other is defined under its type, with a
\* warning when it overwrites a definition.
DefineElem(st, jsonArray, i) ==
  LET elem == jsonArray[i]
      typename == elem.type
  IN IF typename.kind \in {"undefined", "null"} \/ typename.val = ""
     THEN [st EXCEPT !.dlog = Append(@, <<"warn", i, "missing">>)]
     ELSE LET st1 == IF st.Blocks[typename.val] # Null
                     THEN [st EXCEPT !.dlog =
                             Append(@, <<"warn", i, "overwrites">>)]
                     ELSE st
          IN [Blocks |-> [st1.Blocks EXCEPT ![typename.val] =
                            Some([init |-> jsonInitFactory_(elem)])],
              dlog |-> Append(st1.dlog, <<"define", i, typename.val>>)]

\* The loop runs while jsonArray[i] is truthy. The elements are objects,
\* so it ends at the first index past the end of the array.
RECURSIVE DefineLoop(_, _, _)
DefineLoop(st, jsonArray, i) ==
  IF i > Len(jsonArray) THEN st
  ELSE DefineLoop(DefineElem(st, jsonArray, i), jsonArray, i + 1)

defineBlocksWithJsonArray(st, jsonArray) == DefineLoop(st, jsonArray, 1)

InitDefine ==
  /\ Blocks = NoDefinitions
  /\ dlog = <<>>
  /\ dop = "idle"
  /\ djson = <<>>
  /\ dpre = NoDefinitions

DefineBlocks ==
  /\ dop = "idle"
  /\ \E jsonArray \in JsonArrays :
       \E r \in {defineBlocksWithJsonArray(
                   [Blocks |-> Blocks, dlog |-> <<>>], jsonArray)} :
         /\ Blocks' = r.Blocks
         /\ dlog' = r.dlog
         /\ djson' = jsonArray
  /\ dop' = "define"
  /\ dpre' = Blocks
  /\ UNCHANGED nonDefVars

ReturnDefine ==
  /\ dop = "define"
  /\ dop' = "idle"
  /\ dlog' = <<>>
  /\ djson' = <<>>
  /\ dpre' = NoDefinitions
  /\ UNCHANGED <<Blocks, nonDefVars>>

\* =====================================================================
\* Part IV: the controls_if block and its mutator
\* =====================================================================
\* The most else-if clauses a block is given.
MaxElseif == 2
\* The most calls of decompose, saveConnections and compose followed.
MaxIfCalls == 4

\* The blocks that can be plugged into the inputs: each is named by its
\* one connection, an output (value inputs) or a previous connection
\* (statement inputs).
ValueChildren == {1}
StatementChildren == {2}

\* parseInt of a string that holds no number, null included.
NaN == -1

Truthy(n) == n # 0 /\ n # NaN

\* setAttribute stores the decimal string of a number; parseInt(s, 10)
\* reads it back, and gives NaN for the null of a missing attribute.
Digits == <<"0", "1", "2", "3", "4", "5", "6", "7", "8", "9">>
NumberToString(n) == Digits[n + 1]
parseInt(attr) ==
  IF attr = Null THEN NaN
  ELSE CHOOSE n \in 0..(Len(Digits) - 1) : Digits[n + 1] = attr[1]

\* 'IF' + i, 'DO' + i and 'ELSE'.
InputName(prefix, i) == <<prefix, i>>
ELSE_INPUT == <<"ELSE", 0>>

\* block.appendValueInput(name), block.appendStatementInput(name)
appendInput(b, name) ==
  [b EXCEPT !.inputs = Append(@, [name |-> name, child |-> NoConnection])]

\* block.removeInput(name): the input goes, and the block plugged into
\* it is unplugged.
removeInput(b, name) ==
  [b EXCEPT !.inputs = SelectSeq(@, LAMBDA in : in.name # name)]

\* block.getInput(name) && input.connection.targetConnection
TargetConnection(b, name) ==
  IF \E i \in DOMAIN b.inputs : b.inputs[i].name = name
  THEN b.inputs[CHOOSE i \in DOMAIN b.inputs : b.inputs[i].name = name].child
  ELSE NoConnection

\* input.connection.connect(childConnection): the child is unplugged from
\* the input it is in, if any, and plugged into this one.
Connect(b, name, conn) ==
  [b EXCEPT !.inputs =
     [i \in DOMAIN @ |->
        IF @[i].name = name THEN [@[i] EXCEPT !.child = conn]
        ELSE IF @[i].child = conn THEN [@[i] EXCEPT !.child = NoConnection]
        ELSE @[i]]]

\* The block after init: IF0 and DO0, no else-if and no else.
InitIfBlock ==
  [elseifCount_ |-> 0, elseCount_ |-> 0,
   inputs |-> <<[name |-> InputName("IF", 0), child |-> NoConnection],
                [name |-> InputName("DO", 0), child |-> NoConnection]>>]

\* Create XML to represent the number of else-if and else inputs.
mutationToDom(b) ==
  IF ~Truthy(b.elseifCount_) /\ ~Truthy(b.elseCount_) THEN Null
  ELSE Some([elseif |-> IF Truthy(b.elseifCount_)
                        THEN Some(NumberToString(b.elseifCount_)) ELSE Null,
             else |-> IF Truthy(b.elseCount_)
                      THEN Some(NumberToString(1)) ELSE Null])

\* The loop of domToMutation: IFi and DOi are appended while
\* i <= elseifCount_, which is never so when the count is NaN.
RECURSIVE AppendElseifInputs(_, _)
AppendElseifInputs(b, i) ==
  IF b.elseifCount_ = NaN \/ i > b.elseifCount_ THEN b
  ELSE AppendElseifInputs(
         appendInput(appendInput(b, InputName("IF", i)),
                     InputName("DO", i)), i + 1)

\* Parse XML to restore the else-if and else inputs.
domToMutation(b, xmlElement) ==
  LET b1 == [b EXCEPT !.elseifCount_ = parseInt(xmlElement.elseif),
                      !.elseCount_ = parseInt(xmlElement.else)]
      b2 == AppendElseifInputs(b1, 1)
  IN IF Truthy(b2.elseCount_) THEN appendInput(b2, ELSE_INPUT) ELSE b2

\* ----------------------------------------------------------- the mutator
CONTROLS_IF_ELSEIF == "controls_if_elseif"
CONTROLS_IF_ELSE == "controls_if_else"

\* A clause block is taken from the flyout while the mutator's workspace
\* holds fewer than MaxElseif clause blocks: the new block is one of these.
ClauseIds == 1..MaxElseif

\* workspace.newBlock(type): valueConnection_ and statementConnection_ are
\* not set.
newBlock(type) ==
  [type |-> type, valueConnection_ |-> NoConnection,
   statementConnection_ |-> NoConnection]

NoMutator == [open |-> FALSE, clauses |-> <<>>, stack |-> <<>>]

\* A variant of decompose that leaves out the else block.
decomposeNoElse(b) ==
  LET n == IF b.elseifCount_ = NaN THEN 0 ELSE b.elseifCount_
  IN [open |-> TRUE,
      clauses |-> [k \in 1..n |-> newBlock(CONTROLS_IF_ELSEIF)],
      stack |-> [k \in 1..n |-> k]]

\* Populate the mutator's dialog with this block's components: under the
\* container's STACK input one else-if block for every i from 1 with
\* i <= elseifCount_ (none with NaN), then an else block if elseCount_.
decompose(b) ==
  LET n == IF b.elseifCount_ = NaN THEN 0 ELSE b.elseifCount_
      len == IF Truthy(b.elseCount_) THEN n + 1 ELSE n
  IN [open |-> TRUE,
      clauses |-> [k \in 1..len |->
                     newBlock(IF k <= n THEN CONTROLS_IF_ELSEIF
                              ELSE CONTROLS_IF_ELSE)],
      stack |-> [k \in 1..len |-> k]]

\* for (var i = this.elseifCount_; i > 0; i--): IFi and DOi are removed.
RECURSIVE RemoveElseifInputs(_, _)
RemoveElseifInputs(b, i) ==
  IF i = NaN \/ ~(i > 0) THEN b
  ELSE RemoveElseifInputs(
         removeInput(removeInput(b, InputName("IF", i)),
                     InputName("DO", i)), i - 1)

\* The switch of compose for one clause block: its inputs are appended
\* and the children it recorded are connected to them.
ComposeClause(b, clauseBlock) ==
  IF clauseBlock.type = CONTROLS_IF_ELSEIF
  THEN LET n == b.elseifCount_ + 1
           b1 == appendInput(
                   appendInput([b EXCEPT !.elseifCount_ = n],
                               InputName("IF", n)), InputName("DO", n))
           b2 == IF clauseBlock.valueConnection_ # NoConnection
                 THEN Connect(b1, InputName("IF", n),
                              clauseBlock.valueConnection_)
                 ELSE b1
       IN IF clauseBlock.statementConnection_ # NoConnection
          THEN Connect(b2, InputName("DO", n),
                       clauseBlock.statementConnection_)
          ELSE b2
  ELSE LET b1 == appendInput([b EXCEPT !.elseCount_ = @ + 1], ELSE_INPUT)
       IN IF clauseBlock.statementConnection_ # NoConnection
          THEN Connect(b1, ELSE_INPUT, clauseBlock.statementConnection_)
          ELSE b1

\* The while loop of compose, from the k-th block of the stack.
RECURSIVE ComposeLoop(_, _, _)
ComposeLoop(b, m, k) ==
  IF k > Len(m.stack) THEN b
  ELSE ComposeLoop(ComposeClause(b, m.clauses[m.stack[k]]), m, k + 1)

\* Reconfigure this block based on the mutator dialog's components.
compose(b, m) ==
  LET b1 == IF Truthy(b.elseCount_) THEN removeInput(b, ELSE_INPUT) ELSE b
      b2 == [b1 EXCEPT !.elseCount_ = 0]
      b3 == RemoveElseifInputs(b2, b2.elseifCount_)
      b4 == [b3 EXCEPT !.elseifCount_ = 0]
  IN ComposeLoop(b4, m, 1)

\* The while loop of saveConnections, from the k-th block of the stack,
\* with i the number of the next else-if.
RECURSIVE SaveLoop(_, _, _, _)
SaveLoop(b, m, k, i) ==
  IF k > Len(m.stack) THEN m
  ELSE LET id == m.stack[k]
       IN IF m.clauses[id].type = CONTROLS_IF_ELSEIF
          THEN SaveLoop(b,
                 [m EXCEPT !.clauses[id].valueConnection_ =
                             TargetConnection(b, InputName("IF", i)),
                           !.clauses[id].statementConnection_ =
                             TargetConnection(b, InputName("DO", i))],
                 k + 1, i + 1)
          ELSE SaveLoop(b,
                 [m EXCEPT !.clauses[id].statementConnection_ =
                             TargetConnection(b, ELSE_INPUT)],
                 k + 1, i)

\* Store pointers to any connected child blocks.
saveConnections(b, m) == SaveLoop(b, m, 1, 1)

\* ------------------------------------------------------------ Part IV
\* A block with n else-if clauses and e else clauses, as compose builds it.
BlockWith(n, e) ==
  LET b == AppendElseifInputs(
             [InitIfBlock EXCEPT !.elseifCount_ = n, !.elseCount_ = e], 1)
  IN IF e = 1 THEN appendInput(b, ELSE_INPUT) ELSE b

\* The stacks a mutator can hold below the container: the else block has
\* no next connection, so it is the last block; the model stops at
\* MaxElseif else-if blocks.
IsStack(clauses, st) ==
  /\ \A k \in DOMAIN st : clauses[st[k]].type = CONTROLS_IF_ELSE => k = Len(st)
  /\ Cardinality({k \in DOMAIN st : clauses[st[k]].type = CONTROLS_IF_ELSEIF})
       <= MaxElseif

\* The stack st with block id put in before position k.
InsertAt(st, id, k) ==
  SubSeq(st, 1, k - 1) \o <<id>> \o SubSeq(st, k, Len(st))

\* The stack st without the block at position k.
RemoveAt(st, k) == SubSeq(st, 1, k - 1) \o SubSeq(st, k + 1, Len(st))

\* The inputs a child can be plugged into: the value inputs for a block
\* with an output, the statement inputs for a block with a previous
\* connection.
InputsFor(b, c) ==
  {b.inputs[i].name : i \in {j \in DOMAIN b.inputs :
     /\ b.inputs[j].name[2] > 0 \/ b.inputs[j].name = ELSE_INPUT
     /\ IF c \in ValueChildren THEN b.inputs[j].name[1] = "IF"
        ELSE b.inputs[j].name[1] \in {"DO", "ELSE"}}}

IdleIf == iop = "idle"
NoIfState ==
  [ifBlock |-> InitIfBlock, mutator |-> NoMutator, savedClauses |-> {},
   clean |-> FALSE]
CurIf ==
  [ifBlock |-> ifBlock, mutator |-> mutator, savedClauses |-> savedClauses,
   clean |-> clean]

InitIf ==
  /\ ifBlock = InitIfBlock
  /\ loaded = FALSE
  /\ mutator = NoMutator
  /\ savedClauses = {}
  /\ clean = FALSE
  /\ icalls = 0
  /\ iop = "idle"
  /\ isrc = InitIfBlock
  /\ ipre = NoIfState

\* Blockly.Xml.domToBlock on the XML of a block with n else-if and e else
\* clauses: a new block is initialised and, if the XML, written with
\* mutationToDom, has a mutation element, domToMutation is called with it.
LoadXml ==
  /\ IdleIf /\ ~loaded
  /\ \E n \in 0..MaxElseif, e \in {0, 1} :
       LET src == BlockWith(n, e)
           dom == mutationToDom(src)
       IN /\ isrc' = src
          /\ ifBlock' = IF dom = Null THEN InitIfBlock
                        ELSE domToMutation(InitIfBlock, dom[1])
  /\ loaded' = TRUE
  /\ iop' = "load"
  /\ ipre' = CurIf
  /\ UNCHANGED <<mutator, savedClauses, clean, icalls, nonIfVars>>

\* The user plugs a block into an input of the controls_if block.
UserConnect ==
  /\ IdleIf /\ loaded
  /\ \E c \in ValueChildren \cup StatementChildren :
       \E name \in InputsFor(ifBlock, c) :
         /\ TargetConnection(ifBlock, name) # c
         /\ ifBlock' = Connect(ifBlock, name, c)
  /\ clean' = FALSE
  /\ UNCHANGED <<loaded, mutator, savedClauses, icalls, iop, isrc, ipre,
                 nonIfVars>>

\* The user unplugs a block from its input.
UserDisconnect ==
  /\ IdleIf /\ loaded
  /\ \E i \in DOMAIN ifBlock.inputs :
       /\ ifBlock.inputs[i].child # NoConnection
       /\ ifBlock' = [ifBlock EXCEPT !.inputs[i].child = NoConnection]
  /\ clean' = FALSE
  /\ UNCHANGED <<loaded, mutator, savedClauses, icalls, iop, isrc, ipre,
                 nonIfVars>>

\* The mutator is opened: decompose fills its workspace.
Decompose ==
  /\ IdleIf /\ loaded /\ ~mutator.open
  /\ icalls < MaxIfCalls /\ icalls' = icalls + 1
  /\ mutator' = decompose(ifBlock)
  /\ savedClauses' = {}
  /\ clean' = FALSE
  /\ iop' = "decompose"
  /\ ipre' = CurIf
  /\ UNCHANGED <<ifBlock, loaded, isrc, nonIfVars>>

SaveConnections ==
  /\ IdleIf /\ mutator.open
  /\ icalls < MaxIfCalls /\ icalls' = icalls + 1
  /\ mutator' = saveConnections(ifBlock, mutator)
  /\ savedClauses' = Range(mutator.stack)
  /\ clean' = TRUE
  /\ iop' = "saveConnections"
  /\ ipre' = CurIf
  /\ UNCHANGED <<ifBlock, loaded, isrc, nonIfVars>>

\* The user drags a clause block out of the stack; it stays in the
\* mutator's workspace.
RemoveClause ==
  /\ IdleIf /\ mutator.open
  /\ \E k \in DOMAIN mutator.stack :
       mutator' = [mutator EXCEPT !.stack = RemoveAt(@, k)]
  /\ UNCHANGED <<ifBlock, loaded, savedClauses, clean, icalls, iop, isrc, ipre,
                 nonIfVars>>

\* The user drags a clause block into the stack: one that lies in the
\* mutator's workspace, or a new one from the flyout.
InsertClause ==
  /\ IdleIf /\ mutator.open
  /\ \/ \E id \in DOMAIN mutator.clauses \ Range(mutator.stack),
           k \in 1..(Len(mutator.stack) + 1) :
          /\ IsStack(mutator.clauses, InsertAt(mutator.stack, id, k))
          /\ mutator' = [mutator EXCEPT !.stack = InsertAt(@, id, k)]
     \/ \E type \in {CONTROLS_IF_ELSEIF, CONTROLS_IF_ELSE},
           k \in 1..(Len(mutator.stack) + 1) :
          LET id == Len(mutator.clauses) + 1
              clauses == Append(mutator.clauses, newBlock(type))
          IN /\ id \in ClauseIds
             /\ IsStack(clauses, InsertAt(mutator.stack, id, k))
             /\ mutator' = [mutator EXCEPT
                              !.clauses = clauses,
                              !.stack = InsertAt(@, id, k)]
  /\ UNCHANGED <<ifBlock, loaded, savedClauses, clean, icalls, iop, isrc, ipre,
                 nonIfVars>>

Compose ==
  /\ IdleIf /\ mutator.open
  /\ icalls < MaxIfCalls /\ icalls' = icalls + 1
  /\ ifBlock' = compose(ifBlock, mutator)
  /\ clean' = FALSE
  /\ iop' = "compose"
  /\ ipre' = CurIf
  /\ UNCHANGED <<loaded, mutator, savedClauses, isrc, nonIfVars>>

ReturnIf ==
  /\ ~IdleIf
  /\ iop' = "idle"
  /\ isrc' = InitIfBlock
  /\ ipre' = NoIfState
  /\ UNCHANGED <<ifBlock, loaded, mutator, savedClauses, clean, icalls,
                 nonIfVars>>

\* ------------------------------------------------------ specifications
\* Part II starts from one state of part I.
InitKeyOnly == InitKey /\ ~readOnly[2] /\ InitBind /\ InitDefine /\ InitIf

Init == InitKey /\ InitBind /\ InitDefine /\ InitIf

Next ==
  \/ Select
  \/ SetDragMode
  \/ Highlight
  \/ MarkFocused
  \/ KeyDown
  \/ Duplicate
  \/ Return

Spec == Init /\ [][Next]_vars

NextBind ==
  \/ BindWithChecks
  \/ BindPlain
  \/ Unbind
  \/ Dispatch
  \/ ReturnBind

SpecBind == InitKeyOnly /\ [][NextBind]_vars

NextDefine ==
  \/ DefineBlocks
  \/ ReturnDefine

SpecDefine == InitKeyOnly /\ [][NextDefine]_vars

NextIf ==
  \/ LoadXml
  \/ UserConnect
  \/ UserDisconnect
  \/ Decompose
  \/ SaveConnections
  \/ RemoveClause
  \/ InsertClause
  \/ Compose
  \/ ReturnIf

SpecIf == InitKeyOnly /\ [][NextIf]_vars

\* Part IV without the edits of the stack: the mutator is opened and
\* compose is called with the stack decompose built.
NextIfRoundTrip ==
  \/ LoadXml
  \/ UserConnect
  \/ UserDisconnect
  \/ Decompose
  \/ SaveConnections
  \/ Compose
  \/ ReturnIf

SpecIfRoundTrip == InitKeyOnly /\ [][NextIfRoundTrip]_vars

\* =====================================================================
\* Properties of part I. They are stated on the record of the last call:
\* pre is the state the entry point was called in, the other variables
\* are the state it left.
\* =====================================================================

\* The positions in the trace of the calls of one kind.
CallsOf(kind) == {i \in DOMAIN trace : trace[i][1] = kind}

\* onKeyDown_ was called and got past its first test.
KeyActed ==
  /\ op = "onKeyDown_"
  /\ ~pre.readOnly[pre.mainWorkspace]
  /\ ~ev.targetInput

\* alt, ctrl or meta held and shift not held.
PlainModifier == (ev.altKey \/ ev.ctrlKey \/ ev.metaKey) /\ ~ev.shiftKey

ClipboardUnchanged ==
  /\ clipboardXml_ = pre.clipboardXml_
  /\ clipboardSource_ = pre.clipboardSource_

\* The blocks the call created, and the blocks it removed.
Created == DOMAIN blocks \ DOMAIN pre.blocks
Removed == DOMAIN pre.blocks \ DOMAIN blocks

\* The clipboard holds the XML of block b of the state pre: the entry of b
\* first, then none or all of the blocks below it, with b's position (x
\* negated on an RTL block) and b's workspace as the source.
ClipboardHolds(b) ==
  /\ clipboardXml_ # Null
  /\ LET xml == clipboardXml_[1]
         all == BlockToDom(pre.blocks, b).blocks
     IN /\ xml.blocks \in {all, <<all[1]>>}
        /\ xml.blocks[1].type = pre.blocks[b].type
        /\ xml.hasXY
        /\ xml.x = IF WorkspaceRTL(pre.blocks[b].workspace)
                   THEN 0 - pre.blocks[b].x ELSE pre.blocks[b].x
        /\ xml.y = pre.blocks[b].y
  /\ clipboardSource_ = pre.blocks[b].workspace

\* The one paste the call made put the element xml into workspace ws: the
\* call is on record and, unless it threw, the blocks created are those of
\* the element, all in ws.
OnePasteOf(xml, ws) ==
  /\ Cardinality(CallsOf("paste")) = 1
  /\ \A i \in CallsOf("paste") : trace[i][2] = ws /\ trace[i][3] = xml
  /\ ~threw =>
       /\ Cardinality(Created) = Len(xml.blocks)
       /\ \A b \in Created : blocks[b].workspace = ws
       /\ \E h \in Created :
            /\ blocks[h].type = xml.blocks[1].type
            /\ BlockToDom(blocks, h).blocks = xml.blocks
       /\ Removed = {}

\* C1: Blockly.duplicate_(block) leaves the local clipboard unchanged,
\* whatever it held before (nothing, or a fragment from any workspace):
\* when duplicate_ returns, clipboardXml_ and clipboardSource_ have their
\* values from before the call, and exactly one paste, of the copy of the
\* block, has been made into the block's workspace.
C1_DuplicateKeepsClipboard ==
  (op = "duplicate_" /\ ~threw) =>
    /\ ClipboardUnchanged
    /\ Cardinality(CallsOf("copy_")) = 1
    /\ \A i \in CallsOf("copy_") : trace[i][2] = arg
    /\ \E i \in CallsOf("paste") :
         /\ trace[i][3].blocks[1].type = pre.blocks[arg].type
         /\ OnePasteOf(trace[i][3], pre.blocks[arg].workspace)

\* C1's case: a block is duplicated while the clipboard holds a fragment
\* of another workspace.
C1_Witness ==
  /\ op = "duplicate_" /\ ~threw
  /\ pre.clipboardXml_ # Null
  /\ pre.clipboardSource_ # pre.blocks[arg].workspace
  /\ Created # {}

\* C2: no key actions on read-only workspaces or while an HTML input is
\* focused: onKeyDown_ then changes neither the clipboard, the selection,
\* the highlighted connection, the blocks, the event group nor the clip
\* cache, makes no call (so none of undo) and no call of preventDefault,
\* for every key code and modifier combination.
C2_NoKeyActions ==
  (op = "onKeyDown_" /\ (pre.readOnly[pre.mainWorkspace] \/ ev.targetInput)) =>
    /\ ClipboardUnchanged
    /\ selected = pre.selected
    /\ highlightedConnection_ = pre.highlightedConnection_
    /\ blocks = pre.blocks
    /\ group = pre.group
    /\ clipCache = pre.clipCache
    /\ trace = <<>>
    /\ ~prevented
    /\ ~threw

\* C2's cases: a cut key on a read-only main workspace, and a delete key
\* while an input is focused, each with a block selected that may be
\* deleted and moved.
C2_Witness ==
  /\ op = "onKeyDown_"
  /\ CanCopy(pre)
  /\ \/ /\ pre.readOnly[pre.mainWorkspace] /\ ~ev.targetInput
        /\ ev.keyCode = KEY_X /\ ev.ctrlKey /\ ~ev.shiftKey
     \/ /\ ~pre.readOnly[pre.mainWorkspace] /\ ev.targetInput
        /\ ev.keyCode = KEY_DELETE

\* C3 as stated: on key C with alt, ctrl or meta held and shift not held,
\* a selected block that is deletable and movable is on the clipboard
\* afterwards (its XML with its position, x negated on RTL, and its
\* workspace as the source) and no block is deleted; otherwise the
\* clipboard is unchanged.
C3_CopyAsStated ==
  (op = "onKeyDown_" /\ ev.keyCode = KEY_C /\ PlainModifier) =>
    IF CanCopy(pre)
    THEN ClipboardHolds(pre.selected) /\ blocks = pre.blocks
    ELSE ClipboardUnchanged

\* C3, amended: the same, for a key press that onKeyDown_ acts on (the main
\* workspace is not read-only and the event target is not an input).
C3_Copy ==
  (KeyActed /\ ev.keyCode = KEY_C /\ PlainModifier) =>
    IF CanCopy(pre)
    THEN ClipboardHolds(pre.selected) /\ blocks = pre.blocks
    ELSE ClipboardUnchanged

\* C3's case: a block of the RTL workspace is copied over a clipboard
\* that held something else.
C3_Witness ==
  /\ KeyActed /\ ev.keyCode = KEY_C /\ PlainModifier
  /\ CanCopy(pre)
  /\ WorkspaceRTL(pre.blocks[pre.selected].workspace)
  /\ pre.clipboardXml_ # Null
  /\ clipboardXml_ # pre.clipboardXml_
  /\ clipboardXml_[1].x < 0

\* What C4 says of a press of key V.
PasteOutcome ==
  IF pre.clipboardXml_ # Null
  THEN /\ OnePasteOf(pre.clipboardXml_[1], pre.clipboardSource_)
       /\ ClipboardUnchanged
  ELSE /\ CallsOf("paste") = {}
       /\ blocks = pre.blocks

\* C4 as stated: on key V with alt, ctrl or meta held and shift not held,
\* a non-empty clipboard is pasted exactly once into the workspace it was
\* copied from (clipboardSource_) and stays as it is, so that any number
\* of pastes insert the same fragment; with an empty clipboard no block is
\* created in any workspace.
C4_PasteAsStated ==
  (op = "onKeyDown_" /\ ev.keyCode = KEY_V /\ PlainModifier) => PasteOutcome

\* C4, amended: the same, for a key press that onKeyDown_ acts on (the main
\* workspace is not read-only and the event target is not an input).
C4_Paste ==
  (KeyActed /\ ev.keyCode = KEY_V /\ PlainModifier) => PasteOutcome

\* C4's case: a fragment copied in the workspace that is not the main
\* workspace is pasted there.
C4_Witness ==
  /\ KeyActed /\ ev.keyCode = KEY_V /\ PlainModifier
  /\ pre.clipboardXml_ # Null
  /\ pre.clipboardSource_ # pre.mainWorkspace
  /\ ~threw
  /\ \E b \in Created : blocks[b].workspace = pre.clipboardSource_

\* What C5 says of a press of key X.
CutOutcome ==
  IF CanCopy(pre)
  THEN /\ \E i \in CallsOf("copy_"), j \in CallsOf("dispose") :
            /\ i < j
            /\ trace[i][2] = pre.selected
            /\ trace[j][2] = pre.selected
       /\ Cardinality(CallsOf("copy_")) = 1
       /\ Cardinality(CallsOf("dispose")) = 1
       /\ ~threw => /\ ClipboardHolds(pre.selected)
                    /\ pre.selected \notin DOMAIN blocks
  ELSE /\ ClipboardUnchanged
       /\ blocks = pre.blocks
       /\ CallsOf("copy_") = {} /\ CallsOf("dispose") = {}

\* C5 as stated: cut is copy followed by delete. On key X with alt, ctrl
\* or meta held and shift not held, a selected block that is deletable
\* and movable is first copied to the clipboard and then disposed, so that
\* on return the clipboard holds it and it is no longer in its workspace;
\* a block that is not deletable or not movable is neither copied nor
\* deleted.
C5_CutAsStated ==
  (op = "onKeyDown_" /\ ev.keyCode = KEY_X /\ PlainModifier) => CutOutcome

\* C5, amended: the same, for a key press that onKeyDown_ acts on (the main
\* workspace is not read-only and the event target is not an input).
C5_Cut ==
  (KeyActed /\ ev.keyCode = KEY_X /\ PlainModifier) => CutOutcome

\* C5's case: a block is cut while the clipboard holds another fragment.
C5_Witness ==
  /\ KeyActed /\ ev.keyCode = KEY_X /\ PlainModifier
  /\ CanCopy(pre) /\ ~threw
  /\ pre.clipboardXml_ # Null
  /\ clipboardXml_ # pre.clipboardXml_
  /\ pre.selected \in Removed

\* What C6 says of a press of delete or backspace.
DeleteOutcome ==
  /\ prevented
  /\ trace # <<>> /\ trace[1][1] = "preventDefault"
  /\ \A j \in CallsOf("dispose") :
       \E i \in CallsOf("preventDefault") : i < j
  /\ IF pre.selected # NoBlock /\ IsDeletable(pre.blocks, pre.selected)
     THEN /\ Cardinality(CallsOf("dispose")) = 1
          /\ \A j \in CallsOf("dispose") : trace[j][2] = pre.selected
          /\ ~threw => pre.selected \notin DOMAIN blocks
     ELSE /\ CallsOf("dispose") = {}
          /\ blocks = pre.blocks
  /\ ClipboardUnchanged

\* C6 as stated: on delete or backspace (key code 8 or 46) on a workspace
\* that is not read-only, the browser default is prevented on every such
\* key press, also with no block selected or a block that is not
\* deletable, and before any block is disposed; the selected block is
\* disposed if and only if it exists and is deletable (it need not be
\* movable); the clipboard is unchanged.
C6_DeleteAsStated ==
  (/\ op = "onKeyDown_" /\ ~pre.readOnly[pre.mainWorkspace]
   /\ ev.keyCode \in {KEY_BACKSPACE, KEY_DELETE}) => DeleteOutcome

\* C6, amended: the same, for a key press on a workspace that is not
\* read-only whose target is not an HTML input.
C6_Delete ==
  (KeyActed /\ ev.keyCode \in {KEY_BACKSPACE, KEY_DELETE}) => DeleteOutcome

\* C6's case: backspace with a modifier held disposes of a selected block
\* that is deletable but not movable.
C6_Witness ==
  /\ KeyActed /\ ev.keyCode = KEY_BACKSPACE /\ ev.ctrlKey
  /\ pre.selected # NoBlock
  /\ IsDeletable(pre.blocks, pre.selected)
  /\ ~IsMovable(pre.blocks, pre.selected)
  /\ pre.selected \in Removed
  /\ pre.clipboardXml_ # Null

\* C7: 'z' for undo, 'Z' for redo. On key Z (key code 90) with alt, ctrl
\* or meta held, on a key press that onKeyDown_ acts on, mainWorkspace.undo
\* is called exactly once with its redo flag equal to whether shift is
\* held; key Y (key code 89) with such a modifier and no shift calls redo.
C7_UndoRedoAsStated ==
  /\ (KeyActed /\ ev.keyCode = KEY_Z
        /\ (ev.altKey \/ ev.ctrlKey \/ ev.metaKey)) =>
       /\ Cardinality(CallsOf("undo")) = 1
       /\ \A i \in CallsOf("undo") :
            trace[i][2] = pre.mainWorkspace /\ trace[i][3] = ev.shiftKey
  /\ (KeyActed /\ ev.keyCode = KEY_Y /\ PlainModifier) =>
       /\ Cardinality(CallsOf("undo")) = 1
       /\ \A i \in CallsOf("undo") :
            trace[i][2] = pre.mainWorkspace /\ trace[i][3] = TRUE

\* What the code does instead: undo is never called with shift held, so
\* key Z only ever undoes.
C7_UndoOnly ==
  (KeyActed /\ ev.shiftKey) => CallsOf("undo") = {}

\* =====================================================================
\* Properties of part II, stated on the record of the last operation:
\* bpre holds the listeners and bindings before it.
\* =====================================================================

\* The calls of func the last dispatch made for binding b, in order.
CallsBy(b) == SelectSeq(funcCalls, LAMBDA c : c[1] = b)

\* Binding b has a listener for the dispatched event on the event's node.
Listening(b) ==
  \E i \in DOMAIN listeners[bev.node] :
    /\ listeners[bev.node][i].name = bev.name
    /\ listeners[bev.node][i].fn.binding = b

\* The touch points of the dispatched event binding b is to handle, in
\* order.
PointsToHandle(b) ==
  SelectSeq([i \in 1..Len(bev.touches) |-> i],
            LAMBDA i : bindings[b].noCapture \/ bev.touches[i])

\* C8: a listener bound with Blockly.bindEventWithChecks_ splits each
\* event into its touch points and calls func exactly once, in order, for
\* each touch point Touch.shouldHandleEvent accepts and never for one it
\* rejects; with opt_noCaptureIdentifier true, func is called once for
\* every touch point.
C8_FuncPerHandledTouch ==
  bop.kind = "dispatch" =>
    \A b \in DOMAIN bindings :
      (bindings[b].kind = "checks" /\ Listening(b)) =>
         CallsBy(b) = [k \in 1..Len(PointsToHandle(b)) |->
                         <<b, PointsToHandle(b)[k]>>]

\* C8's case: of the two touch points of an event the first is rejected
\* and the second accepted, and func is called for the second only.
C8_Witness ==
  /\ bop.kind = "dispatch"
  /\ bev.touches = <<FALSE, TRUE>>
  /\ \E b \in DOMAIN bindings :
       /\ bindings[b].kind = "checks" /\ ~bindings[b].noCapture
       /\ Listening(b)
       /\ CallsBy(b) = << <<b, 2>> >>

\* C9: for a touch listener installed by Blockly.bindEventWithChecks_, over
\* any sequence of touch events, the default of a touch event is prevented
\* if and only if func was called for at least one touch point of that
\* same event.
C9_PreventedIffHandled ==
  (bop.kind = "dispatch" /\ bev.name \in TouchNames) =>
    \A b \in DOMAIN bindings :
      (bindings[b].kind = "checks" /\ Listening(b)) =>
         (b \in preventedBy <=> CallsBy(b) # <<>>)

\* What the code does instead: the default is prevented if and only if
\* func was called for a touch point of this or of any earlier event (a
\* mouse event too) delivered to the binding.
C9_PreventedIffEverHandled ==
  (bop.kind = "dispatch" /\ bev.name \in TouchNames) =>
    \A b \in DOMAIN bindings :
      (bindings[b].kind = "checks" /\ Listening(b)) =>
         (b \in preventedBy <=>
            (CallsBy(b) # <<>> \/ bpre.bindings[b].handled))

\* The listeners of node n before the operation without those the bind
\* data d names.
Without(n, d) ==
  SelectSeq(bpre.listeners[n],
            LAMBDA l : ~\E i \in DOMAIN d : d[i] = <<n, l.name, l.fn>>)

\* The event names a binding to name listens to.
NamesBound(name) ==
  <<name>> \o (IF name \in DOMAIN TOUCH_MAP THEN TOUCH_MAP[name] ELSE <<>>)

\* C10: bind/unbind round trip. The bind data returned by
\* Blockly.bindEventWithChecks_ or Blockly.bindEvent_ has exactly one entry
\* per listener added (one for the named event plus one per name in
\* Touch.TOUCH_MAP[name]); Blockly.unbindEvent_ removes every one of those
\* listeners, with the same node, event name and wrapper, leaves the
\* node's other listeners untouched and leaves the bind data empty, so
\* that a second unbindEvent_ on it removes nothing.
C10_BindUnbind ==
  /\ bop.kind = "bind" =>
       LET b == bop.binding
           d == bindings[b].bindData
           nd == bindings[b].node
       IN /\ Len(d) = Len(NamesBound(bindings[b].name))
          /\ \A i \in DOMAIN d :
               d[i][1] = nd /\ d[i][2] = NamesBound(bindings[b].name)[i]
          /\ listeners[nd] = bpre.listeners[nd] \o
               [i \in DOMAIN d |-> [name |-> d[i][2], fn |-> d[i][3]]]
          /\ \A n \in Nodes \ {nd} : listeners[n] = bpre.listeners[n]
  /\ bop.kind = "unbind" =>
       LET b == bop.binding
           d == bpre.bindings[b].bindData
       IN /\ bindings[b].bindData = <<>>
          /\ \A n \in Nodes : listeners[n] = Without(n, d)
          /\ \A n \in Nodes :
               Len(bpre.listeners[n]) - Len(listeners[n]) =
                 Cardinality({i \in DOMAIN d : d[i][1] = n})
          /\ d = <<>> => listeners = bpre.listeners

\* C10's case: a binding with three listeners is unbound from a node where
\* another binding listens to the same event, whose listeners stay.
C10_Witness ==
  /\ bop.kind = "unbind"
  /\ Len(bpre.bindings[bop.binding].bindData) = 3
  /\ bindings[bop.binding].bindData = <<>>
  /\ \E c \in DOMAIN bindings :
       /\ c # bop.binding
       /\ bindings[c].node = bindings[bop.binding].node
       /\ bindings[c].name = bindings[bop.binding].name
       /\ Len(bindings[c].bindData) = 3
       /\ Len(listeners[bindings[c].node]) = 3

\* C10's other case: bind data that was emptied is unbound a second time.
C10_WitnessSecondUnbind ==
  /\ bop.kind = "unbind"
  /\ bpre.bindings[bop.binding].bindData = <<>>
  /\ \E n \in Nodes : listeners[n] # <<>>

\* =====================================================================
\* Further properties of part I: the blocks a cut moves, and the event
\* groups of a key press.
\* =====================================================================

\* The blocks of the state pre that the clipboard element holds after a
\* copy of block b: b and as many of the blocks below it as the element
\* has entries after the first.
HeldOnClipboard(b) ==
  LET chain == Chain(pre.blocks, b)
      n == Len(clipboardXml_[1].blocks)
  IN {chain[i] : i \in 1..(IF n < Len(chain) THEN n ELSE Len(chain))}

\* C15: a cut conserves blocks in both drag modes. For a press of key X
\* with alt, ctrl or meta held and shift not held that returns, the blocks
\* put on the clipboard are the blocks removed from the workspace: when
\* dragMode_ is not DRAG_FREE the clipboard holds the selected block alone
\* and the blocks below it stay, joined to the block above; when dragMode_
\* is DRAG_FREE the clipboard holds the block and all the blocks below it
\* and all of them are removed. A press that cuts nothing removes nothing.
C15_CutConservesBlocks ==
  (op = "onKeyDown_" /\ ev.keyCode = KEY_X /\ PlainModifier /\ ~threw) =>
    IF CallsOf("copy_") = {}
    THEN Removed = {} /\ ClipboardUnchanged
    ELSE LET b == pre.selected
             chain == Chain(pre.blocks, b)
             below == Range(chain) \ {b}
             all == BlockToDom(pre.blocks, b).blocks
             xml == clipboardXml_[1]
         IN /\ xml.blocks = SubSeq(all, 1, Len(xml.blocks))
            /\ HeldOnClipboard(b) = Removed
            /\ Created = {}
            /\ pre.dragMode_ # DRAG_FREE =>
                 /\ Removed = {b}
                 /\ Len(xml.blocks) = 1
                 /\ below \subseteq DOMAIN blocks
                 /\ \A c \in DOMAIN blocks :
                      pre.blocks[c].next = b =>
                        blocks[c].next = pre.blocks[b].next
            /\ pre.dragMode_ = DRAG_FREE =>
                 /\ Removed = Range(chain)
                 /\ xml.blocks = all

\* C15's case in a mode other than DRAG_FREE: a block with a block below
\* it is cut, and the block below stays.
C15_Witness ==
  /\ KeyActed /\ ev.keyCode = KEY_X /\ PlainModifier /\ ~threw
  /\ CallsOf("copy_") # {}
  /\ pre.dragMode_ # DRAG_FREE
  /\ pre.blocks[pre.selected].next # NoBlock
  /\ pre.blocks[pre.selected].next \in DOMAIN blocks
  /\ Removed = {pre.selected}

\* C15's case in DRAG_FREE: the block is cut with the block below it.
C15_WitnessDragFree ==
  /\ KeyActed /\ ev.keyCode = KEY_X /\ PlainModifier /\ ~threw
  /\ pre.dragMode_ = DRAG_FREE
  /\ Cardinality(Removed) = 2
  /\ Len(clipboardXml_[1].blocks) = 2

\* A call of Blockly.Events.setGroup(true) is on record.
OpenedGroup == \E i \in CallsOf("setGroup") : trace[i][2]

\* C16: event groups are balanced. A call of onKeyDown_ that opened an
\* event group (paste, delete, cut) has closed it when the call ends, also
\* when the paste or the disposal of the selected block throws.
C16_GroupsBalanced ==
  (op = "onKeyDown_" /\ OpenedGroup) => ~group

\* What the code does: the group is closed when the call returns. When the
\* paste or the disposal throws, setGroup(false) is not reached and the
\* group stays open.
C16_GroupsBalancedOnReturn ==
  /\ (op = "onKeyDown_" /\ OpenedGroup /\ ~threw) => ~group
  /\ (op = "onKeyDown_" /\ OpenedGroup /\ threw) => group

\* The calls on record that change the blocks of a workspace.
BlockChanges ==
  CallsOf("paste") \cup CallsOf("domToBlock") \cup CallsOf("dispose")

\* C17: every change onKeyDown_ makes to the blocks of a workspace (a
\* paste, a paste from the clip cache on ctrl+shift+V, a disposal by
\* delete or cut) is made while an event group is open.
C17_ChangesInGroup ==
  op = "onKeyDown_" => \A i \in BlockChanges : trace[i][4]

\* What the code does: the paste and the disposal are made in a group the
\* call opened; the paste from the clip cache is made without opening one.
C17_ChangesInGroupButClipCache ==
  op = "onKeyDown_" =>
    /\ \A i \in CallsOf("paste") \cup CallsOf("dispose") :
         /\ trace[i][4]
         /\ \E j \in CallsOf("setGroup") : j < i /\ trace[j][2]
    /\ CallsOf("domToBlock") # {} => CallsOf("setGroup") = {}

\* =====================================================================
\* Properties of part III, stated on the record of the last call: djson
\* is the array it was given, dpre is Blockly.Blocks before it.
\* =====================================================================

\* The elements of the array whose type is the non-empty string t.
ElementsOfType(t) ==
  {i \in DOMAIN djson :
     djson[i].type.kind = "string" /\ djson[i].type.val = t}

\* The elements whose type is a non-empty string.
Typed == UNION {ElementsOfType(t) : t \in TypeNames}

\* The definitions on record, and the element each was made for.
Definitions == {k \in DOMAIN dlog : dlog[k][1] = "define"}

Latest(is) == CHOOSE i \in is : \A j \in is : j <= i

\* C11: defineBlocksWithJsonArray(jsonArray) defines every element whose
\* type is a non-empty string under that type, once and in the order of
\* the array, with an init that applies that element's own JSON; when
\* elements share a type, or a definition exists, the later one replaces
\* it; an element whose type is missing, null or empty is skipped: it
\* changes nothing and the elements after it are still processed.
C11_DefineBlocks ==
  dop = "define" =>
    /\ {dlog[k][2] : k \in Definitions} = Typed
    /\ \A k, l \in Definitions : k < l => dlog[k][2] < dlog[l][2]
    /\ \A k \in Definitions : djson[dlog[k][2]].type.val = dlog[k][3]
    /\ \A t \in TypeNames :
         IF ElementsOfType(t) = {}
         THEN Blocks[t] = dpre[t]
         ELSE /\ Blocks[t] # Null
              /\ Blocks[t][1].init.jsonInit = djson[Latest(ElementsOfType(t))]

\* C11's case: an element without a type comes before two elements that
\* share a type and differ otherwise, and the type was defined before.
C11_Witness ==
  /\ dop = "define"
  /\ Len(djson) = 3
  /\ djson[1].type.kind # "string"
  /\ djson[2].type = djson[3].type
  /\ djson[2].type.kind = "string" /\ djson[2].type.val # ""
  /\ djson[2].body # djson[3].body
  /\ dpre[djson[3].type.val] # Null
  /\ Blocks[djson[3].type.val][1].init.jsonInit = djson[3]
  /\ \E t \in TypeNames : ElementsOfType(t) = {} /\ Blocks[t] = dpre[t]

\* =====================================================================
\* Properties of part IV, stated on the record of the last operation:
\* ipre is the state before it, isrc the block whose XML was loaded.
\* =====================================================================

\* The names of the inputs of a block, in order.
InputNames(b) == [i \in DOMAIN b.inputs |-> b.inputs[i].name]

\* C12: controls_if mutation round trip. For a block with elseifCount_ = n
\* and elseCount_ in {0, 1}, not both zero, domToMutation applied to a new
\* block with the element mutationToDom made gives elseifCount_ = n, the
\* same elseCount_, and the inputs IF1..IFn, DO1..DOn and ELSE exactly
\* when elseCount_ is 1; mutationToDom gives null exactly when both counts
\* are zero.
C12_MutationRoundTrip ==
  iop = "load" =>
    /\ mutationToDom(isrc) = Null <=>
         (isrc.elseifCount_ = 0 /\ isrc.elseCount_ = 0)
    /\ mutationToDom(isrc) # Null =>
         /\ ifBlock.elseifCount_ = isrc.elseifCount_
         /\ ifBlock.elseCount_ = isrc.elseCount_
         /\ InputNames(ifBlock) = InputNames(isrc)

\* What the code does: the inputs are those of the source block and a
\* count that was not zero comes back, but a count of zero, whose
\* attribute mutationToDom leaves out, comes back as NaN.
C12_MutationRoundTripNaN ==
  iop = "load" =>
    /\ mutationToDom(isrc) = Null <=>
         (isrc.elseifCount_ = 0 /\ isrc.elseCount_ = 0)
    /\ mutationToDom(isrc) # Null =>
         /\ ifBlock.elseifCount_ =
              IF isrc.elseifCount_ = 0 THEN NaN ELSE isrc.elseifCount_
         /\ ifBlock.elseCount_ =
              IF isrc.elseCount_ = 0 THEN NaN ELSE isrc.elseCount_
         /\ InputNames(ifBlock) = InputNames(isrc)

\* Both counts of the block are numbers.
Counted(b) == b.elseifCount_ # NaN /\ b.elseCount_ # NaN

\* The types of the clause blocks of a stack, in order.
StackTypes(m) == [k \in DOMAIN m.stack |-> m.clauses[m.stack[k]].type]

\* The stack given to compose is as decompose builds it from the block:
\* the same clause blocks, in the same order.
Unmodified ==
  StackTypes(ipre.mutator) = StackTypes(decompose(ipre.ifBlock))

C13_ComposeCountsNumbers ==
  iop = "compose" => Counted(ifBlock)

\* The input compose creates for the clause block at position k of the
\* stack: IFn or DOn for the n-th else-if block, ELSE for the else block.
InputCreatedFor(m, k, prefix) ==
  IF m.clauses[m.stack[k]].type = CONTROLS_IF_ELSEIF
  THEN InputName(prefix, Cardinality({j \in 1..k :
         m.clauses[m.stack[j]].type = CONTROLS_IF_ELSEIF}))
  ELSE ELSE_INPUT

\* Child c is plugged into an input of block b.
Connected(b, c) == \E i \in DOMAIN b.inputs : b.inputs[i].child = c

\* compose was called after saveConnections with nothing but edits of the
\* stack between them: the children are where they were recorded.
ComposedAfterSave == iop = "compose" /\ ipre.clean

\* What C14 says of the clause block id, which recorded its children in
\* the last saveConnections.
ChildrenFollow(id) ==
  LET m == ipre.mutator
      cl == m.clauses[id]
  IN IF id \in Range(m.stack)
     THEN LET k == CHOOSE j \in DOMAIN m.stack : m.stack[j] = id
          IN /\ cl.valueConnection_ # NoConnection =>
                  TargetConnection(ifBlock, InputCreatedFor(m, k, "IF"))
                    = cl.valueConnection_
             /\ cl.statementConnection_ # NoConnection =>
                  TargetConnection(ifBlock, InputCreatedFor(m, k, "DO"))
                    = cl.statementConnection_
     ELSE /\ cl.valueConnection_ # NoConnection =>
               ~Connected(ifBlock, cl.valueConnection_)
          /\ cl.statementConnection_ # NoConnection =>
               ~Connected(ifBlock, cl.statementConnection_)

\* C14 as stated: children are kept across a mutator edit. When
\* saveConnections is called and then compose, every child that was in
\* the value or statement input of an else-if clause, or in ELSE, is in
\* the IF, DO or ELSE input made for the clause block that recorded it,
\* wherever that block now is in the stack, and the children of clause
\* blocks taken out of the stack are in no input.
C14_ChildrenFollowClauses ==
  ComposedAfterSave => \A id \in ipre.savedClauses : ChildrenFollow(id)

\* No clause block of the stack that was outside it at the last
\* saveConnections holds an older record of a child one of the clause
\* blocks of that call recorded.
NoOlderRecord ==
  LET m == ipre.mutator
      recorded == UNION {{m.clauses[id].valueConnection_,
                          m.clauses[id].statementConnection_} :
                           id \in ipre.savedClauses} \ {NoConnection}
  IN \A a \in Range(m.stack) \ ipre.savedClauses :
       /\ m.clauses[a].valueConnection_ \notin recorded
       /\ m.clauses[a].statementConnection_ \notin recorded

\* C14, amended: the same, when no clause block put into the stack after
\* saveConnections holds an older record of one of those children.
C14_ChildrenFollowClausesUnlessOlderRecord ==
  (ComposedAfterSave /\ NoOlderRecord) =>
    \A id \in ipre.savedClauses : ChildrenFollow(id)

\* C14's case: two else-if blocks that recorded a child each change
\* places, and each child is in the input of its block's new place.
C14_Witness ==
  /\ ComposedAfterSave /\ NoOlderRecord
  /\ Len(ipre.mutator.stack) = 2
  /\ ipre.savedClauses = Range(ipre.mutator.stack)
  /\ \E id \in ipre.savedClauses :
       /\ ipre.mutator.clauses[id].valueConnection_ # NoConnection
       /\ TargetConnection(ipre.ifBlock, InputName("IF", 1))
            = ipre.mutator.clauses[id].valueConnection_
       /\ TargetConnection(ifBlock, InputName("IF", 2))
            = ipre.mutator.clauses[id].valueConnection_
  /\ \E id \in ipre.savedClauses :
       /\ ipre.mutator.clauses[id].statementConnection_ # NoConnection
       /\ TargetConnection(ipre.ifBlock, InputName("DO", 2))
            = ipre.mutator.clauses[id].statementConnection_
       /\ TargetConnection(ifBlock, InputName("DO", 1))
            = ipre.mutator.clauses[id].statementConnection_

\* C14's other case: a clause block that recorded a child is taken out of
\* the stack, and the child is in no input afterwards.
C14_WitnessRemoved ==
  /\ ComposedAfterSave /\ NoOlderRecord
  /\ \E id \in ipre.savedClauses \ Range(ipre.mutator.stack) :
       /\ ipre.mutator.clauses[id].statementConnection_ # NoConnection
       /\ Connected(ipre.ifBlock, ipre.mutator.clauses[id].statementConnection_)
       /\ ~Connected(ifBlock, ipre.mutator.clauses[id].statementConnection_)
  /\ ipre.mutator.stack # <<>>

====
